---- MODULE Spec2Model ----
(***************************************************************************)
(* Landmark-to-control pipeline of janisa-hologram:                        *)
(*   HandTracker.js   (src/unnamed/part_000)  history buffers, extractor,  *)
(*                                            self-rescheduling loop       *)
(*   GestureEngine.js (src/frontend/src/components/GestureEngine.js)       *)
(*                                            computeGesture               *)
(*   HoloViewer.jsx   (src/frontend/src/components/HoloViewer.jsx)         *)
(*                                            the frame callback, damp,    *)
(*                                            animate                      *)
(*                                                                         *)
(* Numbers are fixed-point integers in units of 1e-4 (0.5 is 5000); time   *)
(* is in milliseconds.  Products and quotients round down to the unit; on  *)
(* the landmark grid used here (multiples of 0.01) the thresholds, the     *)
(* affine maps and the planar distances are exact.  Every reading of       *)
(* performance.now() within one tick returns the same instant.             *)
(***************************************************************************)
EXTENDS Integers, Sequences, FiniteSets, TLC

VARIABLES
    now,        \* performance.now(), ms
    ticks,      \* number of loop() invocations so far
    rafLoop,    \* pending requestAnimationFrame(loop) callbacks
    history,    \* HandTracker: history.h0 / history.h1
    results,    \* loop(): what detectForVideo gave the last tick (Null: threw)
    frame,      \* loop(): frame built in the last tick (Null: none)
    caught,     \* loop(): exception caught in the last tick (Null: none)
    onFrameCalls, \* number of invocations of the frame callback
    prev,       \* HoloViewer: prev
    smooth,     \* HoloViewer: smooth
    glowMesh,   \* HoloViewer: glowMesh material
    pushed,     \* per slot, every sample pushed since the slot was last empty
    cleared,    \* per slot, how often a non-empty history was emptied
    last,       \* HoloViewer: last, the instant of the previous animate()
    renders,    \* number of animate() invocations so far
    rafAnimate, \* pending requestAnimationFrame(animate) callbacks
    calls       \* direct calls of computeGesture: arguments and result of each

vars == <<now, ticks, rafLoop, history, results, frame, caught, onFrameCalls,
          prev, smooth, glowMesh, pushed, cleared, last, renders, rafAnimate,
          calls>>

\* what the tracker loop and its frame callback never touch
viewerVars == <<last, renders, rafAnimate, calls>>

----------------------------------------------------------------------------
(* JavaScript values *)

Null == [null |-> TRUE]
Undefined == [undefined |-> TRUE]
IsNull(v) == "null" \in DOMAIN v
IsUndef(v) == "undefined" \in DOMAIN v
TypeError == [error |-> "TypeError"]
DetectError == [error |-> "detectForVideo"]
IsError(v) == "error" \in DOMAIN v

\* the +Infinity of `h ? h.pinch : Infinity`, above every finite value here
Infinity == 2000000000
IsFiniteNum(v) == v # Infinity /\ v # -Infinity

Min(a, b) == IF a <= b THEN a ELSE b
Max(a, b) == IF a >= b THEN a ELSE b

RECURSIVE SqrtIter(_, _, _)
SqrtIter(n, lo, hi) ==
    IF lo >= hi THEN lo
    ELSE LET mid == (lo + hi + 1) \div 2
         IN IF mid * mid <= n THEN SqrtIter(n, mid, hi)
                              ELSE SqrtIter(n, lo, mid - 1)

\* Math.hypot(dx, dy)
hypot(dx, dy) == SqrtIter(dx * dx + dy * dy, 0, 30000)

Pt(px, py) == [x |-> px, y |-> py, z |-> 0]

----------------------------------------------------------------------------
(* HandTracker.js *)

maxLen == 8

\* evicts as soon as the buffer holds maxLen samples
pushHist_evictAtCap(buf, v) ==
    LET b == Append(buf, v)
    IN IF Len(b) >= maxLen THEN Tail(b) ELSE b

pushHist(buf, v) ==
    LET b == Append(buf, v)
    IN IF Len(b) > maxLen THEN Tail(b) ELSE b

RECURSIVE SumX(_)
SumX(buf) == IF buf = <<>> THEN 0 ELSE Head(buf).x + SumX(Tail(buf))
RECURSIVE SumY(_)
SumY(buf) == IF buf = <<>> THEN 0 ELSE Head(buf).y + SumY(Tail(buf))

mean(buf) ==
    IF Len(buf) = 0 THEN Null
    ELSE [x |-> SumX(buf) \div Len(buf), y |-> SumY(buf) \div Len(buf)]

\* dt = max((b.t - a.t) / 1000, 1 / 60) seconds
calcVel(buf) ==
    IF Len(buf) < 2 THEN [vx |-> 0, vy |-> 0]
    ELSE LET a == buf[Len(buf) - 1]
             b == buf[Len(buf)]
         IN IF (b.t - a.t) * 60 <= 1000
            THEN [vx |-> (b.x - a.x) * 60, vy |-> (b.y - a.y) * 60]
            ELSE [vx |-> ((b.x - a.x) * 1000) \div (b.t - a.t),
                  vy |-> ((b.y - a.y) * 1000) \div (b.t - a.t)]

\* lm[i] of a JavaScript array held as a 1-based sequence
At(lm, i) == IF i < Len(lm) THEN lm[i + 1] ELSE Undefined

computeHandState(lm) ==
    LET wrist == At(lm, 0)
        index == At(lm, 8)
        thumb == At(lm, 4)
        middle == At(lm, 12)
    IN IF IsUndef(index) \/ IsUndef(thumb) \/ IsUndef(wrist)
       THEN TypeError
       ELSE [wrist |-> wrist, indexTip |-> index, thumbTip |-> thumb,
             middleTip |-> middle,
             pinch |-> hypot(index.x - thumb.x, index.y - thumb.y),
             area |-> hypot(index.x - wrist.x, index.y - wrist.y),
             raw |-> lm]

----------------------------------------------------------------------------
(* GestureEngine.js *)

\* Math.max(a, Math.min(b, v || 0)); v is never NaN or undefined here
clamp(v, a, b) == Max(a, Min(b, v))

map(v, inA, inB, outA, outB) ==
    outA + ((v - inA) * (outB - outA)) \div (inB - inA)

\* hands[i] || null
HandAt(hands, i) == IF i < Len(hands) THEN hands[i + 1] ELSE Null

\* state.f || dflt for a numeric field f: undefined and 0 are falsy
Field(state, f, dflt) ==
    IF f \in DOMAIN state
    THEN (IF state[f] = 0 THEN dflt ELSE state[f])
    ELSE dflt

\* state.f || dflt for an object field f
ObjField(state, f, dflt) ==
    IF f \in DOMAIN state THEN state[f] ELSE dflt

isPalmOpen(h) ==
    IF IsNull(h) THEN FALSE
    ELSE h.pinch > 800 /\ h.area > 500

\* the middle-finger test dropped
isLShape_indexOnly(h) ==
    IF IsNull(h) THEN FALSE
    ELSE hypot(h.indexTip.x - h.thumbTip.x, h.indexTip.y - h.thumbTip.y) > 1100

isLShape(h) ==
    IF IsNull(h) THEN FALSE
    ELSE LET idxThumb == hypot(h.indexTip.x - h.thumbTip.x,
                               h.indexTip.y - h.thumbTip.y)
             midWrist == hypot(h.middleTip.x - h.wrist.x,
                               h.middleTip.y - h.wrist.y)
         IN idxThumb > 1100 /\ midWrist < 600

\* isLShape(h) reads h.middleTip.x: a TypeError when middleTip is undefined
LShapeThrows(h) == ~IsNull(h) /\ IsUndef(h.middleTip)

\* the two-hand branch with the one-hand gains and bounds
rotTargetOf_twoHandsWide(h0, h1, init) ==
    IF ~IsNull(h0) /\ IsNull(h1) THEN
        [x |-> clamp(((h0.wrist.y - 5000) * 25) \div 10, -12000, 12000),
         y |-> clamp((-(h0.wrist.x - 5000) * 35) \div 10, -18000, 18000)]
    ELSE IF ~IsNull(h0) /\ ~IsNull(h1) THEN
        LET mx == (h0.wrist.x + h1.wrist.x) \div 2 - 5000
            my == (h0.wrist.y + h1.wrist.y) \div 2 - 5000
        IN [x |-> clamp((my * 25) \div 10, -12000, 12000),
            y |-> clamp((-mx * 35) \div 10, -18000, 18000)]
    ELSE init

rotTargetOf(h0, h1, init) ==
    IF ~IsNull(h0) /\ IsNull(h1) THEN
        LET dx == h0.wrist.x - 5000
            dy == h0.wrist.y - 5000
        IN [x |-> clamp((dy * 25) \div 10, -12000, 12000),
            y |-> clamp((-dx * 35) \div 10, -18000, 18000)]
    ELSE IF ~IsNull(h1) /\ IsNull(h0) THEN
        LET dx == h1.wrist.x - 5000
            dy == h1.wrist.y - 5000
        IN [x |-> clamp((dy * 25) \div 10, -12000, 12000),
            y |-> clamp((-dx * 35) \div 10, -18000, 18000)]
    ELSE IF ~IsNull(h0) /\ ~IsNull(h1) THEN
        LET mx == (h0.wrist.x + h1.wrist.x) \div 2 - 5000
            my == (h0.wrist.y + h1.wrist.y) \div 2 - 5000
        IN [x |-> clamp(my * 2, -10000, 10000),
            y |-> clamp(-mx * 3, -16000, 16000)]
    ELSE init

\* the mapping of the earlier GestureEngine (1 + inv * 1.4, at most 2.8)
scaleTargetOf_legacy(pinch, init) ==
    IF pinch # Infinity THEN
        LET inv == clamp(map(pinch, 200, 1800, 12000, 0), 0, 12000)
        IN clamp(10000 + (inv * 14) \div 10, 4500, 28000)
    ELSE init

scaleTargetOf(pinch, init) ==
    IF pinch # Infinity THEN
        LET norm == clamp(map(pinch, 200, 1800, 10000, 0), 0, 10000)
        IN clamp(6000 + (norm * 22) \div 10, 4500, 30000)
    ELSE init

\* the x mirror of the one-hand drag not applied
posTargetOf_mirrored(h0, h1, hist, init) ==
    IF isPalmOpen(h0) /\ IsNull(h1) THEN
        LET mv == hist.h0vel
        IN [init EXCEPT !.x = clamp((mv.vx * 35) \div 100, -12000, 12000),
                        !.y = clamp((mv.vy * 35) \div 100, -12000, 12000)]
    ELSE IF ~IsNull(h0) /\ ~IsNull(h1) /\ isPalmOpen(h0) /\ isPalmOpen(h1) THEN
        LET m0 == hist.h0mean
            m1 == hist.h1mean
        IN [init EXCEPT
              !.x = clamp((((m0.x + m1.x) \div 2 - 5000) * 22) \div 10, -16000, 16000),
              !.y = clamp((((m0.y + m1.y) \div 2 - 5000) * 16) \div 10, -12000, 12000)]
    ELSE init

posTargetOf(h0, h1, hist, init) ==
    IF isPalmOpen(h0) /\ IsNull(h1) THEN
        LET mv == hist.h0vel
        IN [init EXCEPT !.x = clamp((mv.vx * (-35)) \div 100, -12000, 12000),
                        !.y = clamp((mv.vy * 35) \div 100, -12000, 12000)]
    ELSE IF isPalmOpen(h1) /\ IsNull(h0) THEN
        LET mv == hist.h1vel
        IN [init EXCEPT !.x = clamp((mv.vx * (-35)) \div 100, -12000, 12000),
                        !.y = clamp((mv.vy * 35) \div 100, -12000, 12000)]
    ELSE IF ~IsNull(h0) /\ ~IsNull(h1) /\ isPalmOpen(h0) /\ isPalmOpen(h1) THEN
        LET m0 == hist.h0mean
            m1 == hist.h1mean
        IN IF ~IsNull(m0) /\ ~IsNull(m1) THEN
               LET midx == (m0.x + m1.x) \div 2 - 5000
                   midy == (m0.y + m1.y) \div 2 - 5000
               IN [init EXCEPT !.x = clamp((midx * 22) \div 10, -16000, 16000),
                               !.y = clamp((midy * 16) \div 10, -12000, 12000)]
           ELSE init
    ELSE init

RECURSIVE MaxOf(_)
MaxOf(s) == IF Len(s) = 1 THEN s[1] ELSE Max(s[1], MaxOf(Tail(s)))

maxAreaOf(hands) ==
    LET areas == [i \in 1..Len(hands) |-> hands[i].area]
    IN IF Len(areas) > 0 THEN MaxOf(areas) ELSE 0

computeGesture(frm, prv) ==
    LET state == prv
        hands == frm.hands
        h0 == HandAt(hands, 0)
        h1 == HandAt(hands, 1)
        pinch0 == IF ~IsNull(h0) THEN h0.pinch ELSE Infinity
        pinch1 == IF ~IsNull(h1) THEN h1.pinch ELSE Infinity
        pinch == Min(pinch0, pinch1)
        maxArea == maxAreaOf(hands)
    IN IF LShapeThrows(h0) \/ (~isLShape(h0) /\ LShapeThrows(h1))
       THEN TypeError
       ELSE [rotTarget |-> rotTargetOf(h0, h1,
                               [x |-> Field(state, "rotX", 0),
                                y |-> Field(state, "rotY", 0)]),
             scaleTarget |-> scaleTargetOf(pinch, Field(state, "scale", 10000)),
             posTarget |-> posTargetOf(h0, h1, frm.hist,
                               ObjField(state, "pos", Pt(0, 0))),
             reset |-> (isLShape(h0) \/ isLShape(h1)),
             glow |-> clamp(map(maxArea, 200, 2200, 0, 10000), 0, 10000),
             meta |-> [handsCount |-> Len(hands), pinch0 |-> pinch0,
                       pinch1 |-> pinch1, maxArea |-> maxArea]]

\* The object passed as prev, once the call has returned.  When state.pos
\* is an object, out.posTarget is that very object (`state.pos || {...}`),
\* and the pan branches assign its x and y; this happens before isLShape
\* can throw.  Nothing else reachable from prev or frame is assigned.
prevAfter(frm, prv) ==
    IF "pos" \in DOMAIN prv
    THEN [prv EXCEPT !.pos = posTargetOf(HandAt(frm.hands, 0),
                                         HandAt(frm.hands, 1),
                                         frm.hist, prv.pos)]
    ELSE prv

\* the frame passed to a call, once the call has returned: only read
frameAfter(frm, prv) == frm

----------------------------------------------------------------------------
(* HoloViewer.jsx: the callback given to startHandTracking *)

\* the reset override without its last line, smooth.targetPos.set(0, 0, 0)
smoothAfter_posNotReset(sm, gesture) ==
    IF gesture.reset
    THEN [sm EXCEPT !.targetRotX = 0, !.targetRotY = 0,
                    !.targetScale = 10000,
                    !.targetPos = [x |-> gesture.posTarget.x,
                                   y |-> gesture.posTarget.y,
                                   z |-> gesture.posTarget.z]]
    ELSE [sm EXCEPT !.targetRotX = gesture.rotTarget.x,
                    !.targetRotY = gesture.rotTarget.y,
                    !.targetScale = gesture.scaleTarget,
                    !.targetPos = [x |-> gesture.posTarget.x,
                                   y |-> gesture.posTarget.y,
                                   z |-> gesture.posTarget.z]]

\* the assignments of the callback once computeGesture has returned gesture
smoothAfter(sm, gesture) ==
    IF gesture.reset
    THEN [sm EXCEPT !.targetRotX = 0, !.targetRotY = 0,
                    !.targetScale = 10000, !.targetPos = Pt(0, 0)]
    ELSE [sm EXCEPT !.targetRotX = gesture.rotTarget.x,
                    !.targetRotY = gesture.rotTarget.y,
                    !.targetScale = gesture.scaleTarget,
                    !.targetPos = [x |-> gesture.posTarget.x,
                                   y |-> gesture.posTarget.y,
                                   z |-> gesture.posTarget.z]]

\* g = clamp(glow, 0, 1); material.opacity = 0.06 + g * 0.25.  glowMesh is
\* the plane of the default (video) model, built before tracking starts.
glowAfter(gm, gesture) ==
    LET g == Min(Max(gesture.glow, 0), 10000)
    IN [gm EXCEPT !.opacity = 600 + (g * 25) \div 100]

onFrame(frm) ==
    \E gesture \in {computeGesture(frm, prev)} :
       /\ onFrameCalls' = onFrameCalls + 1
       /\ IF IsError(gesture)
          THEN /\ caught' = gesture
               /\ UNCHANGED <<prev, smooth, glowMesh>>
          ELSE /\ caught' = Null
               /\ prev' = gesture
               /\ smooth' = smoothAfter(smooth, gesture)
               /\ glowMesh' = glowAfter(glowMesh, gesture)

----------------------------------------------------------------------------
(* HoloViewer.jsx: damp and animate.  dt is in milliseconds, lambda * dt   *)
(* in thousandths, a fraction of the gap in units of 1e-4.                 *)

\* the alternating series 1 - x + x^2/2! - ... from its k-th term on, in
\* millionths, x in thousandths
RECURSIVE ExpSeries(_, _, _)
ExpSeries(x, k, term) ==
    IF term = 0 THEN 0
    ELSE term - ExpSeries(x, k + 1, (term * x) \div ((k + 1) * 1000))

\* Math.exp(-x), x >= 0
expNeg(x) == ExpSeries(x, 0, 1000000)

\* 1 - Math.exp(-lambda * dt)
approach(lambda, dt) == (1000000 - expNeg(lambda * dt)) \div 100

\* gap * fraction, rounded toward zero: as in floating point, the product
\* of the negated gap is the negated product
Scaled(gap, fraction) ==
    IF gap >= 0 THEN (gap * fraction) \div 10000
    ELSE -(((-gap) * fraction) \div 10000)

damp(current, target, lambda, dt) ==
    current + Scaled(target - current, approach(lambda, dt))

\* the elapsed time taken as it is
dtOf_uncapped(elapsed) == elapsed

\* dt = Math.min((now - last) / 1000, 0.05)
dtOf(elapsed) == Min(elapsed, 50)

\* the assignments of animate() to smooth, dt having been computed
smoothDamped(sm, dt) ==
    [sm EXCEPT
       !.rotX = damp(Field(sm, "rotX", 0), Field(sm, "targetRotX", 0), 8, dt),
       !.rotY = damp(Field(sm, "rotY", 0), Field(sm, "targetRotY", 0), 8, dt),
       !.scale = damp(Field(sm, "scale", 10000),
                      Field(sm, "targetScale", 10000), 6, dt),
       !.pos = Pt(damp(sm.pos.x, sm.targetPos.x, 6, dt),
                  damp(sm.pos.y, sm.targetPos.y, 6, dt))]

\* one invocation of animate(), e ms after the latest reading of the clock
animate(E, M) ==
    \E e \in E :
        /\ rafAnimate >= 1 /\ renders < M
        /\ rafAnimate' = (rafAnimate - 1) + 1
        /\ now' = now + e
        /\ smooth' = smoothDamped(smooth, dtOf((now + e) - last))
        /\ last' = now + e
        /\ renders' = renders + 1
        /\ UNCHANGED <<ticks, rafLoop, history, results, frame, caught,
                       onFrameCalls, prev, glowMesh, pushed, cleared, calls>>

----------------------------------------------------------------------------
(* HandTracker.js: loop() *)

\* history.hN after the update of one slot, hands being this tick's states
\* a lost hand ages the buffer by one sample instead of emptying it
slotAfter_decay(buf, hands, slot, t) ==
    IF slot < Len(hands)
    THEN pushHist(buf, [x |-> hands[slot + 1].indexTip.x,
                        y |-> hands[slot + 1].indexTip.y, t |-> t])
    ELSE IF buf = <<>> THEN <<>> ELSE Tail(buf)

\* the else branch of slot 1 (history.h1 = []) left out
slotAfter_slot0Only(buf, hands, slot, t) ==
    IF slot < Len(hands)
    THEN pushHist(buf, [x |-> hands[slot + 1].indexTip.x,
                        y |-> hands[slot + 1].indexTip.y, t |-> t])
    ELSE IF slot = 0 THEN <<>> ELSE buf

slotAfter(buf, hands, slot, t) ==
    IF slot < Len(hands)
    THEN pushHist(buf, [x |-> hands[slot + 1].indexTip.x,
                        y |-> hands[slot + 1].indexTip.y, t |-> t])
    ELSE <<>>

logAfter(log, hands, slot, t) ==
    IF slot < Len(hands)
    THEN Append(log, [x |-> hands[slot + 1].indexTip.x,
                      y |-> hands[slot + 1].indexTip.y, t |-> t])
    ELSE <<>>

clearedAfter(n, buf, hands, slot) ==
    IF slot >= Len(hands) /\ buf # <<>> THEN n + 1 ELSE n

handsOf(lms) == [i \in 1..Len(lms) |-> computeHandState(lms[i])]

frameOf(hands, hist, t) ==
    [time |-> t, hands |-> hands,
     hist |-> [h0mean |-> mean(hist.h0), h1mean |-> mean(hist.h1),
               h0vel |-> calcVel(hist.h0), h1vel |-> calcVel(hist.h1)]]

\* the finally block: requestAnimationFrame(loop), this invocation consumed
finallyBlock == rafLoop' = (rafLoop - 1) + 1

\* detectForVideo resolves with lms and every computeHandState returns
loopFrame(R, D, M) ==
    \E lms \in R, d \in D :
      \E hands \in {handsOf(lms)} :
        /\ rafLoop >= 1 /\ ticks < M
        /\ \A i \in 1..Len(hands) : ~IsError(hands[i])
        /\ \E hist \in {[h0 |-> slotAfter(history.h0, hands, 0, now + d),
                         h1 |-> slotAfter(history.h1, hands, 1, now + d)]} :
             \E frm \in {frameOf(hands, hist, now + d)} :
               /\ now' = now + d /\ ticks' = ticks + 1
               /\ results' = [landmarks |-> lms]
               /\ history' = hist
               /\ pushed' = [h0 |-> logAfter(pushed.h0, hands, 0, now + d),
                             h1 |-> logAfter(pushed.h1, hands, 1, now + d)]
               /\ cleared' =
                      [h0 |-> clearedAfter(cleared.h0, history.h0, hands, 0),
                       h1 |-> clearedAfter(cleared.h1, history.h1, hands, 1)]
               /\ frame' = frm
               /\ onFrame(frm)
               /\ finallyBlock
               /\ UNCHANGED viewerVars

\* detectForVideo resolves with lms and a computeHandState throws
loopExtractThrows(R, D, M) ==
    \E lms \in R, d \in D :
        /\ rafLoop >= 1 /\ ticks < M
        /\ \E i \in 1..Len(lms) : IsError(computeHandState(lms[i]))
        /\ now' = now + d /\ ticks' = ticks + 1
        /\ results' = [landmarks |-> lms]
        /\ frame' = Null
        /\ caught' = TypeError
        /\ UNCHANGED <<history, pushed, cleared, onFrameCalls, prev, smooth,
                       glowMesh>>
        /\ UNCHANGED viewerVars
        /\ finallyBlock

\* requestAnimationFrame(loop) at the end of the try block, not in finally
loopDetectThrows_noReschedule(D, M) ==
    \E d \in D :
        /\ rafLoop >= 1 /\ ticks < M
        /\ now' = now + d /\ ticks' = ticks + 1
        /\ results' = Null
        /\ frame' = Null
        /\ caught' = DetectError
        /\ UNCHANGED <<history, pushed, cleared, onFrameCalls, prev, smooth,
                       glowMesh>>
        /\ UNCHANGED viewerVars
        /\ rafLoop' = rafLoop - 1

\* detectForVideo rejects
loopDetectThrows(D, M) ==
    \E d \in D :
        /\ rafLoop >= 1 /\ ticks < M
        /\ now' = now + d /\ ticks' = ticks + 1
        /\ results' = Null
        /\ frame' = Null
        /\ caught' = DetectError
        /\ UNCHANGED <<history, pushed, cleared, onFrameCalls, prev, smooth,
                       glowMesh>>
        /\ UNCHANGED viewerVars
        /\ finallyBlock

----------------------------------------------------------------------------
(* Landmark sets fed to the loop: 21-point sets whose points 0, 4, 8, 12   *)
(* are a pose's wrist, thumb tip, index tip and middle tip.                *)

Pose(w, i, t, m) == [wrist |-> w, index |-> i, thumb |-> t, middle |-> m]

Lm(p, n) ==
    [k \in 1..n |-> IF k = 1 THEN p.wrist
                    ELSE IF k = 5 THEN p.thumb
                    ELSE IF k = 9 THEN p.index
                    ELSE IF k = 13 THEN p.middle
                    ELSE Pt(0, 0)]

NPoints == 21

\* pinch 0.02, area 0.20, wrist at the centre
Pinched == Pose(Pt(5000, 5000), Pt(5000, 3000), Pt(5200, 3000), Pt(5000, 2500))
\* pinch 0.18, area 0.20, index tip (0.6, 0.5)
OpenRight == Pose(Pt(6000, 7000), Pt(6000, 5000), Pt(4200, 5000), Pt(6000, 4500))
\* pinch 0.50, area 0.20, index tip (0.4, 0.5)
OpenLeft == Pose(Pt(4000, 7000), Pt(4000, 5000), Pt(9000, 5000), Pt(4000, 4500))
\* index-thumb 0.15, middle-wrist 0.03, index tip (0.61, 0.5)
LShape == Pose(Pt(6100, 6000), Pt(6100, 5000), Pt(7600, 5000), Pt(6100, 5700))
\* index-thumb 0.15, middle-wrist 0.10, index tip (0.62, 0.51)
NotL == Pose(Pt(6200, 6100), Pt(6200, 5100), Pt(7700, 5100), Pt(6200, 5100))
\* wrist outside the unit square, pinch 0.10, area 0.30
Far == Pose(Pt(11000, 10500), Pt(11000, 7500), Pt(10000, 7500), Pt(11000, 7000))
\* pinch 0.10, area 0.01, middle-wrist 0.05
Small == Pose(Pt(5000, 5000), Pt(5000, 4900), Pt(6000, 4900), Pt(5000, 4500))

Singles == {Pinched, OpenRight, LShape, NotL, Far, Small}

Pairs == {<<OpenLeft, OpenRight>>, <<OpenRight, Pinched>>, <<Pinched, OpenRight>>,
          <<Far, Far>>, <<Small, LShape>>}

Results ==
    {<<>>} \cup {<<Lm(p, NPoints)>> : p \in Singles}
           \cup {<<Lm(pr[1], NPoints), Lm(pr[2], NPoints)>> : pr \in Pairs}

\* milliseconds between two ticks: below and above the 1/60 s floor of calcVel
Steps == {16, 20}

MaxTicks == 3

----------------------------------------------------------------------------
\* startHandTracking has reached its closing loop() call: one invocation
\* of loop is pending, nothing has been detected yet
Init ==
    /\ now = 0
    /\ ticks = 0
    /\ rafLoop = 1
    /\ history = [h0 |-> <<>>, h1 |-> <<>>]
    /\ pushed = [h0 |-> <<>>, h1 |-> <<>>]
    /\ cleared = [h0 |-> 0, h1 |-> 0]
    /\ results = Null
    /\ frame = Null
    /\ caught = Null
    /\ onFrameCalls = 0
    /\ prev = <<>>
    /\ smooth = [rotX |-> 0, rotY |-> 0, targetRotX |-> 0, targetRotY |-> 0,
                 scale |-> 10000, targetScale |-> 10000,
                 pos |-> Pt(0, 0), targetPos |-> Pt(0, 0)]
    /\ glowMesh = [opacity |-> 600]
    /\ last = 0
    /\ renders = 0
    /\ rafAnimate = 1
    /\ calls = <<>>

LoopFrame == loopFrame(Results, Steps, MaxTicks)
LoopDetectThrows == loopDetectThrows(Steps, MaxTicks)

Next == LoopFrame \/ LoopDetectThrows

Spec == Init /\ [][Next]_vars

----------------------------------------------------------------------------
(* The loop under the scheduling of requestAnimationFrame, which runs      *)
(* every callback it was handed.                                           *)

FairResults ==
    {<<>>, <<Lm(OpenRight, NPoints)>>, <<Lm(Far, NPoints), Lm(Far, NPoints)>>}

FairSteps == {16}

MaxFairTicks == 4

FairLoopFrame == loopFrame(FairResults, FairSteps, MaxFairTicks)
FairLoopDetectThrows == loopDetectThrows(FairSteps, MaxFairTicks)

NextFair == FairLoopFrame \/ FairLoopDetectThrows

FairSpec == Init /\ [][NextFair]_vars /\ WF_vars(NextFair)

----------------------------------------------------------------------------
(* Long runs of one and two hands: the history buffers fill and evict *)

HistResults ==
    {<<>>, <<Lm(OpenRight, NPoints)>>,
     <<Lm(OpenLeft, NPoints), Lm(OpenRight, NPoints)>>}

HistSteps == {16}

MaxHistTicks == 9

HistLoopFrame == loopFrame(HistResults, HistSteps, MaxHistTicks)
HistLoopDetectThrows == loopDetectThrows(HistSteps, MaxHistTicks)

NextHist == HistLoopFrame \/ HistLoopDetectThrows

SpecHist == Init /\ [][NextHist]_vars

----------------------------------------------------------------------------
(* Landmark sets of any point count handed to the extractor *)

PointCounts == {8, 12, NPoints, NPoints + 1}

LmResults ==
    {<<>>} \cup {<<Lm(p, n)>> : p \in {Pinched, LShape, Far}, n \in PointCounts}
           \cup {<<Lm(OpenLeft, NPoints), Lm(OpenRight, n)>> : n \in PointCounts}
           \cup {<<Lm(OpenLeft, n), Lm(OpenRight, NPoints)>> : n \in PointCounts}

MaxLmTicks == 2

LmLoopFrame == loopFrame(LmResults, HistSteps, MaxLmTicks)
LmLoopExtractThrows == loopExtractThrows(LmResults, HistSteps, MaxLmTicks)
LmLoopDetectThrows == loopDetectThrows(HistSteps, MaxLmTicks)

NextLm == LmLoopFrame \/ LmLoopExtractThrows \/ LmLoopDetectThrows

SpecLm == Init /\ [][NextLm]_vars

----------------------------------------------------------------------------
(* computeGesture called directly, twice in a row on the same two objects: *)
(* frame and prev are the caller's objects, calls the log of the calls.    *)

\* histories a frame may carry: none, slot 0 moving right, both slots
PureHists ==
    {[h0 |-> <<>>, h1 |-> <<>>],
     [h0 |-> <<[x |-> 5000, y |-> 5000, t |-> 0],
               [x |-> 6000, y |-> 5000, t |-> 20]>>, h1 |-> <<>>],
     [h0 |-> <<[x |-> 4000, y |-> 5000, t |-> 20]>>,
      h1 |-> <<[x |-> 6200, y |-> 5100, t |-> 20]>>]}

PureFrames ==
    {frameOf(handsOf(lms), hist, 20) : lms \in Results, hist \in PureHists}

\* {}; a previous target under the names computeGesture reads; the same
\* without a position; a previous output, as HoloViewer passes it
PurePrevs ==
    {<<>>,
     [rotX |-> 3000, rotY |-> -2000, scale |-> 15000, pos |-> Pt(1000, 2000)],
     [rotX |-> 3000, rotY |-> -2000, scale |-> 15000],
     computeGesture(frameOf(handsOf(<<Lm(OpenRight, NPoints)>>),
                            [h0 |-> <<>>, h1 |-> <<>>], 0), <<>>)}

MaxCalls == 2

InitPure ==
    /\ frame \in PureFrames
    /\ prev \in PurePrevs
    /\ calls = <<>>
    /\ now = 0 /\ ticks = 0 /\ rafLoop = 0
    /\ history = [h0 |-> <<>>, h1 |-> <<>>]
    /\ pushed = [h0 |-> <<>>, h1 |-> <<>>]
    /\ cleared = [h0 |-> 0, h1 |-> 0]
    /\ results = Null
    /\ caught = Null
    /\ onFrameCalls = 0
    /\ smooth = [rotX |-> 0, rotY |-> 0, targetRotX |-> 0, targetRotY |-> 0,
                 scale |-> 10000, targetScale |-> 10000,
                 pos |-> Pt(0, 0), targetPos |-> Pt(0, 0)]
    /\ glowMesh = [opacity |-> 600]
    /\ last = 0 /\ renders = 0 /\ rafAnimate = 0

\* const out = computeGesture(frame, prev), the caller keeping both objects
callComputeGesture ==
    /\ Len(calls) < MaxCalls
    /\ calls' = Append(calls, [frame |-> frame, prev |-> prev,
                               out |-> computeGesture(frame, prev)])
    /\ prev' = prevAfter(frame, prev)
    /\ frame' = frameAfter(frame, prev)
    /\ UNCHANGED <<now, ticks, rafLoop, history, results, caught, onFrameCalls,
                   smooth, glowMesh, pushed, cleared, last, renders,
                   rafAnimate>>

NextPure == callComputeGesture

SpecPure == InitPure /\ [][NextPure]_vars

----------------------------------------------------------------------------
(* The two requestAnimationFrame callbacks of the viewer, loop and         *)
(* animate, in any order.  A callback runs to its end before the other     *)
(* starts; loop() assigns nothing before its await and runs from there to  *)
(* its end in one piece, so a render falling inside the await is a render  *)
(* before the tick.                                                        *)

ViewResults ==
    {<<Lm(NotL, NPoints)>>, <<Lm(LShape, NPoints)>>,
     <<Lm(OpenLeft, NPoints), Lm(OpenRight, NPoints)>>}

\* milliseconds since the clock was last read: a frame, a hitch
RenderSteps == {16, 60}

MaxViewTicks == 2
MaxRenders == 3

ViewLoopFrame == loopFrame(ViewResults, HistSteps, MaxViewTicks)
ViewLoopDetectThrows == loopDetectThrows(HistSteps, MaxViewTicks)
ViewAnimate == animate(RenderSteps, MaxRenders)

NextView == ViewLoopFrame \/ ViewLoopDetectThrows \/ ViewAnimate

SpecView == Init /\ [][NextView]_vars

----------------------------------------------------------------------------
(* animate alone, the targets held where a landmark tick left them: any    *)
(* mix of frames and hitches for the first MaxHitchRenders invocations,    *)
(* steady frames from then on.                                             *)

\* rotX, rotY, scale, pos.x, pos.y: the extremes of the clamps, and a
\* target set a few units away from the start
DampTargets ==
    {<<12000, -18000, 28000, 16000, -12000>>,
     <<-12000, 18000, 6000, -16000, 12000>>,
     <<-10000, 16000, 28000, -12000, 12000>>,
     <<40, -25, 10030, 0, 15>>}

\* milliseconds between two invocations at the display's steady rate
SteadyStep == 16

MaxHitchRenders == 3
MaxDampRenders == 110

InitDamp ==
    /\ \E tg \in DampTargets :
         smooth = [rotX |-> 0, rotY |-> 0, targetRotX |-> tg[1],
                   targetRotY |-> tg[2], scale |-> 10000,
                   targetScale |-> tg[3], pos |-> Pt(0, 0),
                   targetPos |-> Pt(tg[4], tg[5])]
    /\ now = 0 /\ ticks = 0 /\ rafLoop = 1
    /\ history = [h0 |-> <<>>, h1 |-> <<>>]
    /\ pushed = [h0 |-> <<>>, h1 |-> <<>>]
    /\ cleared = [h0 |-> 0, h1 |-> 0]
    /\ results = Null /\ frame = Null /\ caught = Null
    /\ onFrameCalls = 0
    /\ prev = <<>>
    /\ glowMesh = [opacity |-> 600]
    /\ last = 0 /\ renders = 0 /\ rafAnimate = 1
    /\ calls = <<>>

DampAnimate ==
    animate(IF renders < MaxHitchRenders THEN RenderSteps ELSE {SteadyStep},
            MaxDampRenders)

NextDamp == DampAnimate

FairDamp == InitDamp /\ [][NextDamp]_vars /\ WF_vars(NextDamp)

----------------------------------------------------------------------------
(* Vocabulary of the properties *)

IsGesture(p) == "rotTarget" \in DOMAIN p

\* the last tick built a frame and the callback stored its gesture in prev
Delivered == ~IsNull(frame) /\ IsNull(caught)

\* this step is a tick that builds a frame and stores its gesture in prev
FrameStep == ticks' = ticks + 1 /\ ~IsNull(frame') /\ IsNull(caught')

\* open-palm predicate: pinch > 0.08 and area > 0.05
OpenPalm(h) == h.pinch > 800 /\ h.area > 500

SqDist(a, b) == (a.x - b.x) * (a.x - b.x) + (a.y - b.y) * (a.y - b.y)

\* L-shape predicate: |indexTip - thumbTip| > 0.11 and |middleTip - wrist| < 0.06
LPredicate(h) ==
    /\ SqDist(h.indexTip, h.thumbTip) > 1100 * 1100
    /\ SqDist(h.middleTip, h.wrist) < 600 * 600

\* min(pinch of present hands), at least one hand present
MinPinch(hands) ==
    IF Len(hands) = 1 THEN hands[1].pinch
    ELSE Min(hands[1].pinch, hands[2].pinch)

InRange(v, a, b) == a <= v /\ v <= b

----------------------------------------------------------------------------
(* C1: with each output passed back as prev, a tick with zero hands        *)
(* returns the rotation, scale and position targets of the previous        *)
(* output (glow 0, reset false), and a tick with hands but no open palm    *)
(* returns the previous position target.                                   *)
C1_HoldsPriorValue ==
    [][(FrameStep /\ IsGesture(prev)) =>
         /\ (Len(frame'.hands) = 0 =>
               /\ prev'.rotTarget = prev.rotTarget
               /\ prev'.scaleTarget = prev.scaleTarget
               /\ prev'.posTarget = prev.posTarget
               /\ prev'.glow = 0
               /\ prev'.reset = FALSE)
         /\ ((/\ Len(frame'.hands) > 0
              /\ \A i \in 1..Len(frame'.hands) : ~OpenPalm(frame'.hands[i])) =>
               prev'.posTarget = prev.posTarget)]_vars

----------------------------------------------------------------------------
\* scale targets named for pinch 0.02, for pinch 0.18 and for pinch above 0.18
ZoomValues(p, sc, top, bottom) ==
    /\ (p = 200 => sc = top)
    /\ (p = 1800 => sc = bottom)
    /\ (p > 1800 => sc = bottom)

\* between two consecutive ticks with hands: larger pinch, no larger scale
ZoomMonotone ==
    (Delivered /\ Len(frame.hands) > 0 /\ FrameStep /\ Len(frame'.hands) > 0
       /\ MinPinch(frame'.hands) >= MinPinch(frame.hands))
      => prev'.scaleTarget <= prev.scaleTarget

----------------------------------------------------------------------------
\* x = clamp(-0.35 vx, -1.2, 1.2), y = clamp(0.35 vy, -1.2, 1.2)
VelPan(pos, v) ==
    /\ pos.x = clamp((v.vx * (-35)) \div 100, -12000, 12000)
    /\ pos.y = clamp((v.vy * 35) \div 100, -12000, 12000)

\* midpoint of the two means minus (0.5, 0.5), times 2.2 / 1.6, clamped
MidPan(pos, m0, m1) ==
    /\ pos.x = clamp((((m0.x + m1.x) \div 2 - 5000) * 22) \div 10, -16000, 16000)
    /\ pos.y = clamp((((m0.y + m1.y) \div 2 - 5000) * 16) \div 10, -12000, 12000)

BothOpenPan ==
    (Len(frame.hands) = 2 /\ OpenPalm(frame.hands[1]) /\ OpenPalm(frame.hands[2]))
      => /\ MidPan(prev.posTarget, frame.hist.h0mean, frame.hist.h1mean)
         /\ ((/\ frame.hist.h0mean = [x |-> 4000, y |-> 5000]
              /\ frame.hist.h1mean = [x |-> 6000, y |-> 5000])
               => prev.posTarget.x = 0 /\ prev.posTarget.y = 0)

(* C3 as stated: whenever exactly one present hand is open-palm, a second  *)
(* non-open hand present or not, the position target comes from that       *)
(* hand's index-tip velocity; with both open, from the midpoint of means.  *)
C3_Original ==
    Delivered =>
      /\ (Len(frame.hands) = 1 /\ OpenPalm(frame.hands[1]) =>
            VelPan(prev.posTarget, frame.hist.h0vel))
      /\ (Len(frame.hands) = 2 /\ OpenPalm(frame.hands[1])
            /\ ~OpenPalm(frame.hands[2]) =>
            VelPan(prev.posTarget, frame.hist.h0vel))
      /\ (Len(frame.hands) = 2 /\ ~OpenPalm(frame.hands[1])
            /\ OpenPalm(frame.hands[2]) =>
            VelPan(prev.posTarget, frame.hist.h1vel))
      /\ BothOpenPan

(* C3 amended: whenever the only present hand is open-palm the position    *)
(* target comes from that hand's index-tip velocity; with both hands       *)
(* open, from the midpoint of the two means.                               *)
C3_Pan ==
    Delivered =>
      /\ (Len(frame.hands) = 1 /\ OpenPalm(frame.hands[1]) =>
            VelPan(prev.posTarget, frame.hist.h0vel))
      /\ BothOpenPan

C3_Witness ==
    /\ Delivered /\ Len(frame.hands) = 1 /\ OpenPalm(frame.hands[1])
    /\ frame.hist.h0vel.vx > 0
    /\ prev.posTarget.x < 0 /\ prev.posTarget.x > -12000

----------------------------------------------------------------------------
(* C4: every control target has scale in [0.45, 3.0], yaw in [-1.8, 1.8],  *)
(* pitch in [-1.2, 1.2], glow in [0, 1]; with two hands yaw is in          *)
(* [-1.6, 1.6] and pitch in [-1.0, 1.0]; a single hand with its wrist at   *)
(* (0.5, 0.5) gives rotation (0, 0).                                       *)
C4_TargetRanges ==
    IsGesture(prev) =>
      /\ InRange(prev.scaleTarget, 4500, 30000)
      /\ InRange(prev.rotTarget.y, -18000, 18000)
      /\ InRange(prev.rotTarget.x, -12000, 12000)
      /\ InRange(prev.glow, 0, 10000)
      /\ (Delivered /\ Len(frame.hands) = 2 =>
            /\ InRange(prev.rotTarget.y, -16000, 16000)
            /\ InRange(prev.rotTarget.x, -10000, 10000))
      /\ ((/\ Delivered /\ Len(frame.hands) = 1
           /\ frame.hands[1].wrist.x = 5000 /\ frame.hands[1].wrist.y = 5000)
            => prev.rotTarget = [x |-> 0, y |-> 0])

C4_Witness ==
    /\ Delivered /\ Len(frame.hands) = 2
    /\ frame.hands[1].wrist.x = 11000
    /\ prev.rotTarget = [x |-> 10000, y |-> -16000]

----------------------------------------------------------------------------
(* C5: on every tick reset is true exactly when a hand present on that     *)
(* tick has the L shape, whatever reset was on earlier ticks.              *)
C5_ResetPulse ==
    Delivered =>
      (prev.reset <=> \E i \in 1..Len(frame.hands) : LPredicate(frame.hands[i]))

\* the sample before the last is the L-shaped hand's, the last tick's is not
C5_Witness ==
    /\ Delivered /\ prev.reset = FALSE
    /\ Len(frame.hands) = 1
    /\ Len(history.h0) = 2
    /\ history.h0[1].x = 6100 /\ history.h0[1].y = 5000

----------------------------------------------------------------------------
LastN(q, n) == SubSeq(q, Len(q) - n + 1, Len(q))

(* C6: after N consecutive ticks with a hand in a slot its history has     *)
(* length min(N, 8) and is the last min(N, 8) pushed samples in arrival    *)
(* order; it never holds more than 8.                                      *)
C6_HistoryWindow ==
    \A slot \in {"h0", "h1"} :
        /\ Len(history[slot]) = Min(Len(pushed[slot]), 8)
        /\ history[slot] = LastN(pushed[slot], Min(Len(pushed[slot]), 8))
        /\ Len(history[slot]) <= 8

C6_Witness ==
    /\ Len(pushed.h1) = 9 /\ Len(history.h1) = 8
    /\ history.h1[1] = pushed.h1[2]
    /\ history.h1[8] = pushed.h1[9]

----------------------------------------------------------------------------
SlotHist(h, slot) == IF slot = 0 THEN h.h0 ELSE h.h1
SlotMean(frm, slot) == IF slot = 0 THEN frm.hist.h0mean ELSE frm.hist.h1mean
SlotVel(frm, slot) == IF slot = 0 THEN frm.hist.h0vel ELSE frm.hist.h1vel
ZeroVel == [vx |-> 0, vy |-> 0]

(* C7: a tick whose frame has no hand in a slot empties that slot's        *)
(* history at once and its frame reports no mean and velocity (0, 0); the  *)
(* first tick on which a hand is back leaves exactly one sample and        *)
(* velocity (0, 0), as does any history of fewer than two samples.         *)
C7_ClearedAtOnce ==
    [][(ticks' = ticks + 1 /\ ~IsNull(frame')) =>
         \A slot \in {0, 1} :
            /\ (slot >= Len(frame'.hands) =>
                  /\ SlotHist(history', slot) = <<>>
                  /\ IsNull(SlotMean(frame', slot))
                  /\ SlotVel(frame', slot) = ZeroVel)
            /\ ((slot < Len(frame'.hands) /\ SlotHist(history, slot) = <<>>) =>
                  /\ Len(SlotHist(history', slot)) = 1
                  /\ SlotVel(frame', slot) = ZeroVel)
            /\ (Len(SlotHist(history', slot)) < 2 =>
                  SlotVel(frame', slot) = ZeroVel)]_vars

\* slot 1 lost its hand and has it back while slot 0 kept one throughout
C7_Witness ==
    /\ ~IsNull(frame) /\ Len(frame.hands) = 2
    /\ cleared.h1 >= 1 /\ Len(history.h1) = 1
    /\ Len(history.h0) = 8
    /\ frame.hist.h1vel = ZeroVel

----------------------------------------------------------------------------
----------------------------------------------------------------------------
(* C9: the extractor fails on every landmark set that does not hold        *)
(* exactly 21 points, and never fails on a set of 21.                      *)
C9_InvalidLandmarkSet ==
    ~IsNull(results) =>
      LET lms == results.landmarks
      IN /\ ((\E i \in 1..Len(lms) : Len(lms[i]) # 21) =>
               IsError(caught) /\ IsNull(frame))
         /\ ((\A i \in 1..Len(lms) : Len(lms[i]) = 21) =>
               IsNull(caught) /\ ~IsNull(frame))

----------------------------------------------------------------------------
(* C10: computeGesture raises nothing and no field of its result,          *)
(* diagnostics included, is infinite.                                      *)
C10_NoInfinity ==
    /\ (~IsNull(frame) => IsNull(caught))
    /\ (IsGesture(prev) =>
          /\ IsFiniteNum(prev.rotTarget.x) /\ IsFiniteNum(prev.rotTarget.y)
          /\ IsFiniteNum(prev.scaleTarget)
          /\ IsFiniteNum(prev.posTarget.x) /\ IsFiniteNum(prev.posTarget.y)
          /\ IsFiniteNum(prev.posTarget.z)
          /\ IsFiniteNum(prev.glow)
          /\ IsFiniteNum(prev.meta.handsCount)
          /\ IsFiniteNum(prev.meta.maxArea)
          /\ IsFiniteNum(prev.meta.pinch0)
          /\ IsFiniteNum(prev.meta.pinch1))

----------------------------------------------------------------------------
\* this step is a direct call of computeGesture
CallStep == Len(calls') = Len(calls) + 1

(* C11: a call of computeGesture leaves both arguments as they were, a     *)
(* prev.pos object included and whichever branch fires, changes nothing    *)
(* else, and calls with equal arguments return equal results.              *)
C11_Pure ==
    /\ [][CallStep =>
            /\ prev' = prev
            /\ frame' = frame
            /\ UNCHANGED <<history, smooth, glowMesh, onFrameCalls, caught>>]_vars
    /\ [](\A i, j \in 1..Len(calls) :
            (calls[i].frame = calls[j].frame /\ calls[i].prev = calls[j].prev)
              => calls[i].out = calls[j].out)

----------------------------------------------------------------------------
\* this step is an invocation of animate()
RenderStep == renders' = renders + 1

\* the targets animate() reads
TargetsOf(sm) == <<sm.targetRotX, sm.targetRotY, sm.targetScale, sm.targetPos>>

IdentityTargets == <<0, 0, 10000, Pt(0, 0)>>

\* the complete target set of one classifier output, the reset override
\* applied
WrittenBy(g) ==
    IF g.reset THEN IdentityTargets
    ELSE <<g.rotTarget.x, g.rotTarget.y, g.scaleTarget,
           [x |-> g.posTarget.x, y |-> g.posTarget.y, z |-> g.posTarget.z]>>

(* C12: whatever the order of landmark ticks and render ticks, the targets *)
(* a render tick reads are the complete set of the latest classifier       *)
(* output alone (the initial targets before the first one), the identity   *)
(* targets when that output has reset = true, and the render tick leaves   *)
(* them as they are.                                                       *)
C12_AtomicTargets ==
    [][RenderStep =>
         /\ (IsGesture(prev) => TargetsOf(smooth) = WrittenBy(prev))
         /\ (IsGesture(prev) /\ prev.reset =>
               TargetsOf(smooth) = IdentityTargets)
         /\ (~IsGesture(prev) => TargetsOf(smooth) = IdentityTargets)
         /\ TargetsOf(smooth') = TargetsOf(smooth)]_vars

\* a render after a reset tick whose own targets were not the identity,
\* an earlier render having moved the model
C12_Witness ==
    /\ renders >= 2 /\ last = now
    /\ IsGesture(prev) /\ prev.reset
    /\ prev.posTarget.x # 0 /\ prev.rotTarget.y # 0
    /\ TargetsOf(smooth) = IdentityTargets
    /\ smooth.rotY # 0

----------------------------------------------------------------------------
Abs(v) == IF v >= 0 THEN v ELSE -v

\* one channel over a render tick: c before, c2 after, t the target,
\* elapsed the real time since the previous render tick, in ms
DampLaw(c, c2, t, lambda, elapsed) ==
    LET dt == IF elapsed > 50 THEN 50 ELSE elapsed
    IN /\ c2 - c = Scaled(t - c, approach(lambda, dt))
       /\ (t >= c => (c <= c2 /\ c2 <= t))
       /\ (t <= c => (t <= c2 /\ c2 <= c))
       /\ Abs(c2 - c) * 10000 <= Abs(t - c) * approach(lambda, 50)
       /\ (Abs(t - c) * approach(lambda, dt) >= 10000 =>
             Abs(t - c2) < Abs(t - c))

\* the gap is below what one steady frame moves at the unit of the
\* arithmetic
Settled(c, t, lambda) == Abs(t - c) * approach(lambda, SteadyStep) < 10000

\* current value, target and lambda of the five channels
Channels(sm) ==
    {<<sm.rotX, sm.targetRotX, 8>>, <<sm.rotY, sm.targetRotY, 8>>,
     <<sm.scale, sm.targetScale, 6>>, <<sm.pos.x, sm.targetPos.x, 6>>,
     <<sm.pos.y, sm.targetPos.y, 6>>}

Converged == \A ch \in Channels(smooth) : Settled(ch[1], ch[2], ch[3])

(* C13: on every render tick each channel (rotX, rotY with lambda 8;       *)
(* scale, pos.x, pos.y with lambda 6) moves by the fraction                *)
(* 1 - e^(-lambda dt) of its gap, dt capped at 0.05 s: it neither          *)
(* overshoots nor moves away, moves by at most gap * (1 - e^(-0.05         *)
(* lambda)), comes strictly closer while the step is at least one unit,    *)
(* and with the target held fixed it ends within that unit of the target.  *)
C13_Damping ==
    /\ [][RenderStep =>
            /\ DampLaw(smooth.rotX, smooth'.rotX, smooth.targetRotX, 8,
                       now' - last)
            /\ DampLaw(smooth.rotY, smooth'.rotY, smooth.targetRotY, 8,
                       now' - last)
            /\ DampLaw(smooth.scale, smooth'.scale, smooth.targetScale, 6,
                       now' - last)
            /\ DampLaw(smooth.pos.x, smooth'.pos.x, smooth.targetPos.x, 6,
                       now' - last)
            /\ DampLaw(smooth.pos.y, smooth'.pos.y, smooth.targetPos.y, 6,
                       now' - last)
            /\ TargetsOf(smooth') = TargetsOf(smooth)]_vars
    /\ <>[]Converged

\* the first render tick comes 60 ms after the start: every channel has
\* moved by the 50 ms fraction of its gap, the largest gaps included
C13_Witness ==
    /\ renders = 1 /\ now = 60
    /\ smooth.targetRotY = -18000 /\ smooth.rotY = damp(0, -18000, 8, 50)
    /\ smooth.targetScale = 28000 /\ smooth.scale = damp(10000, 28000, 6, 50)
    /\ smooth.rotY < 0 /\ smooth.rotY > -18000

----------------------------------------------------------------------------
\* the guards `h1 && !h0` and `isPalmOpen(h1) && !h0` of the classifier
SlotOneOnlyRotation(hands) ==
    ~IsNull(HandAt(hands, 1)) /\ IsNull(HandAt(hands, 0))

SlotOneOnlyPan(hands) ==
    isPalmOpen(HandAt(hands, 1)) /\ IsNull(HandAt(hands, 0))

(* C14: history h1 is non-empty only when history h0 is; a frame has a     *)
(* hand in slot 1 only when it has one in slot 0, its slot histories are   *)
(* non-empty exactly for the slots that have a hand, and the classifier's  *)
(* slot-1-only rotation and pan branches are not taken.                    *)
C14_DenseSlots ==
    /\ (history.h1 # <<>> => history.h0 # <<>>)
    /\ (~IsNull(frame) =>
          /\ (~IsNull(HandAt(frame.hands, 1)) =>
                ~IsNull(HandAt(frame.hands, 0)))
          /\ (history.h0 # <<>> <=> ~IsNull(HandAt(frame.hands, 0)))
          /\ (history.h1 # <<>> <=> ~IsNull(HandAt(frame.hands, 1)))
          /\ ~SlotOneOnlyRotation(frame.hands)
          /\ ~SlotOneOnlyPan(frame.hands))

\* two hands on the first tick; on the second the set of slot 0 is too
\* short to extract while that of slot 1 is well formed
C14_Witness ==
    /\ ticks = 2 /\ caught = TypeError /\ IsNull(frame)
    /\ Len(results.landmarks) = 2
    /\ Len(results.landmarks[1]) = 8
    /\ Len(results.landmarks[2]) = NPoints
    /\ Len(history.h0) = 1 /\ Len(history.h1) = 1

====
